---- MODULE Spec2Model ----
(***************************************************************************)
(* Thread art tools: the nail layout generator (thread_art_generator.py)   *)
(* and the renderer (thread_art_visualizer.py).                            *)
(*                                                                         *)
(* Numbers.  Coordinates are Python floats that the generator rounds to    *)
(* Digits decimals.  The model keeps a rounded coordinate as an integer    *)
(* number of units of 10^-Digits (1.0 is Scale, 0.5 is Scale \div 2).  The  *)
(* floats generate_square_nails computes with (spacing, current_pos and    *)
(* the coordinates before rounding) are IEEE 754 binary64 values; the      *)
(* model keeps each as its exact value and rounds every operation as the   *)
(* hardware does, so that the nails are those the code returns.            *)
(***************************************************************************)
EXTENDS Integers, Sequences, FiniteSets, TLC

\* round(x, 6) in thread_art_generator.py
Digits == 6
Scale == 10 ^ Digits
\* perimeter = 4.0
Perimeter == 4

\* Bounds of the model
MaxCount == 24
BigCount == 4250000
MaxSegmentCount == 511
TieCount == 1536
MaxIterations == 2000
MaxNails == 3
MaxThread == 2
MaxCrop == 2

VARIABLES
    \* generate_square_nails, one loop iteration per step
    sq_pc, sq_num, sq_i, sq_spacing, sq_current_pos, sq_len, sq_prev, sq_last,
    \* one invocation of a tool or of one of its functions
    pc, call, exc, exit_status, stdout, stderr,
    \* generator: arguments, returned layout, written file
    num_nails, shape, gen_nails, out_file,
    \* renderer: parsed input, load's result, visualize's arguments and drawing
    doc, loaded, arg_nails, arg_thread, image_size, canvas, image

sq_vars == <<sq_pc, sq_num, sq_i, sq_spacing, sq_current_pos, sq_len, sq_prev, sq_last>>
io_vars == <<pc, call, exc, exit_status, stdout, stderr>>
gen_vars == <<num_nails, shape, gen_nails, out_file>>
ren_vars == <<doc, loaded, arg_nails, arg_thread, image_size, canvas, image>>
vars == <<sq_vars, io_vars, gen_vars, ren_vars>>

----------------------------------------------------------------------------
(* Python floats: IEEE 754 binary64 with round-to-nearest, ties-to-even *)

\* A float x with 0 <= x < 8 is kept as its exact value, a whole number of
\* 2^-80: the integer part i and the fraction in four limbs of LimbBits bits, a
\* the highest.  Every float from 2^-27 up has its last mantissa bit at 2^-79 or
\* above, so the floats of generate_square_nails for num_nails below 2^26 are
\* kept without loss.
LimbBits == 20
Limb == 2 ^ LimbBits
\* bits of the mantissa of a binary64
MantissaBits == 53
\* a quotient is computed in digits of DigitBits bits
DigitBits == 5
Digit == 2 ^ DigitBits

Float(i, a, b, c, d) == [i |-> i, a |-> a, b |-> b, c |-> c, d |-> d]

\* the int k as a float
FromInt(k) == Float(k, 0, 0, 0, 0)

\* the value with the limbs a, b, c, d, each carried over into the next higher one
CarryA(i, a, b, c, d) == Float(i + (a \div Limb), a % Limb, b, c, d)
CarryB(i, a, b, c, d) == CarryA(i, a + (b \div Limb), b % Limb, c, d)
CarryC(i, a, b, c, d) == CarryB(i, a, b + (c \div Limb), c % Limb, d)
Carry(i, a, b, c, d) == CarryC(i, a, b, c + (d \div Limb), d % Limb)

\* x + y as a real number
ExactAdd(x, y) == Carry(x.i + y.i, x.a + y.a, x.b + y.b, x.c + y.c, x.d + y.d)

\* the position of the highest bit of n >= 1
RECURSIVE Log2(_)
Log2(n) == IF n < 2 THEN 0 ELSE 1 + Log2(n \div 2)

\* the position of the highest bit of x, counted from 2^-80; -1 for zero
TopBit(x) ==
    IF x.i > 0 THEN 4 * LimbBits + Log2(x.i)
    ELSE IF x.a > 0 THEN 3 * LimbBits + Log2(x.a)
    ELSE IF x.b > 0 THEN 2 * LimbBits + Log2(x.b)
    ELSE IF x.c > 0 THEN LimbBits + Log2(x.c)
    ELSE IF x.d > 0 THEN Log2(x.d)
    ELSE -1

\* the bits of x below bit p, for 0 < p <= 30
LowBits(x, p) ==
    IF p <= LimbBits THEN x.d % (2 ^ p)
    ELSE x.d + Limb * (x.c % (2 ^ (p - LimbBits)))

\* x without its bits below bit p
CutBelow(x, p) ==
    IF p <= LimbBits THEN [x EXCEPT !.d = x.d - (x.d % (2 ^ p))]
    ELSE [x EXCEPT !.d = 0, !.c = x.c - (x.c % (2 ^ (p - LimbBits)))]

\* bit p of x is set
BitSet(x, p) ==
    IF p < LimbBits THEN (x.d \div (2 ^ p)) % 2 = 1
    ELSE (x.c \div (2 ^ (p - LimbBits))) % 2 = 1

\* 2^p in units of 2^-80
BitValue(p) ==
    IF p < LimbBits THEN Float(0, 0, 0, 0, 2 ^ p)
    ELSE Float(0, 0, 0, 2 ^ (p - LimbBits), 0)

\* x rounded to a multiple of bit p, whose bits below p are low: up if they are
\* more than half of bit p, or half of it and bit p set (or sticky: the real
\* number lies just above x)
RoundAt(x, p, low, sticky) ==
    IF low > 2 ^ (p - 1) \/ (low = 2 ^ (p - 1) /\ (sticky \/ BitSet(x, p)))
        THEN ExactAdd(CutBelow(x, p), BitValue(p))
    ELSE CutBelow(x, p)

\* x with the last bit of its mantissa at bit p
RoundMantissa(x, p, sticky) == IF p <= 0 THEN x ELSE RoundAt(x, p, LowBits(x, p), sticky)

\* the float nearest to the real number x, or to a real number just above x if sticky
RoundToFloat(x, sticky) == RoundMantissa(x, TopBit(x) - (MantissaBits - 1), sticky)

\* x + y
FloatAdd(x, y) == RoundToFloat(ExactAdd(x, y), FALSE)

\* k more digits of the quotient by n, after digits, from the remainder r
RECURSIVE Quotient(_, _, _, _)
Quotient(r, n, digits, k) ==
    IF k = 0 THEN [digits |-> digits, r |-> r]
    ELSE Quotient((r * Digit) % n, n, Append(digits, (r * Digit) \div n), k - 1)

\* the limb of the four digits from q[j] on
LimbOf(q, j) == ((q[j] * Digit + q[j + 1]) * Digit + q[j + 2]) * Digit + q[j + 3]

\* the float of the integer part i and the digits and the remainder q
FromQuotient(i, q) ==
    RoundToFloat(Float(i, LimbOf(q.digits, 1), LimbOf(q.digits, 5), LimbOf(q.digits, 9),
                       LimbOf(q.digits, 13)), q.r # 0)

\* k / n for ints 0 <= k < 8 n and 0 < n < 2^26
FloatDiv(k, n) == FromQuotient(k \div n, Quotient(k % n, n, <<>>, 4 * (LimbBits \div DigitBits)))

\* x % m for an int m: the remainder of floats is exact
FloatMod(x, m) == [x EXCEPT !.i = x.i % m]

\* x <= k for an int k
FloatLeq(x, k) == x.i < k \/ (x.i = k /\ x.a = 0 /\ x.b = 0 /\ x.c = 0 /\ x.d = 0)

\* x - k for an int k <= x
FloatMinus(x, k) == RoundToFloat([x EXCEPT !.i = x.i - k], FALSE)

\* 1.0 - x for 0 <= x <= 1
OneMinus(x) ==
    IF x.i >= 1 THEN FromInt(0)
    ELSE IF x.a = 0 /\ x.b = 0 /\ x.c = 0 /\ x.d = 0 THEN FromInt(1)
    ELSE RoundToFloat(ExactAdd(Float(0, Limb - 1 - x.a, Limb - 1 - x.b,
                                     Limb - 1 - x.c, Limb - 1 - x.d),
                               Float(0, 0, 0, 0, 1)), FALSE)

\* 10 x as a real number
TimesTen(x) == Carry(x.i * 10, x.a * 10, x.b * 10, x.c * 10, x.d * 10)

\* 10^k x as a real number
RECURSIVE TimesTenTo(_, _)
TimesTenTo(x, k) == IF k = 0 THEN x ELSE TimesTenTo(TimesTen(x), k - 1)

\* the whole number nearest to the real number s, an exact tie to the even one
NearestEven(s) ==
    IF s.a > Limb \div 2 \/ (s.a = Limb \div 2 /\ (s.b > 0 \/ s.c > 0 \/ s.d > 0)) THEN s.i + 1
    ELSE IF s.a = Limb \div 2 /\ s.b = 0 /\ s.c = 0 /\ s.d = 0 /\ s.i % 2 = 1 THEN s.i + 1
    ELSE s.i

\* round(x, 6), in units of 10^-6: Python rounds the exact value of the float to
\* the nearest unit, an exact tie to the even one
Round(x) == NearestEven(TimesTenTo(x, Digits))

----------------------------------------------------------------------------
(* generate_square_nails *)

\* the top edge with x running the wrong way
SquareNailWrongTop(pos) ==
    IF FloatLeq(pos, 1) THEN <<Round(pos), 0>>
    ELSE IF FloatLeq(pos, 2) THEN <<Scale, Round(FloatMinus(pos, 1))>>
    ELSE IF FloatLeq(pos, 3) THEN <<Round(FloatMinus(pos, 2)), Scale>>
    ELSE <<0, Round(OneMinus(FloatMinus(pos, 3)))>>

\* the right edge without the shift by 1.0
SquareNailUnshiftedRight(pos) ==
    IF FloatLeq(pos, 1) THEN <<Round(pos), 0>>
    ELSE IF FloatLeq(pos, 2) THEN <<Scale, Round(pos)>>
    ELSE IF FloatLeq(pos, 3) THEN <<Round(OneMinus(FloatMinus(pos, 2))), Scale>>
    ELSE <<0, Round(OneMinus(FloatMinus(pos, 3)))>>

\* the nail appended for pos_on_perimeter, its coordinates in units of 10^-6
SquareNail(pos) ==
    IF FloatLeq(pos, 1) THEN <<Round(pos), 0>>
    ELSE IF FloatLeq(pos, 2) THEN <<Scale, Round(FloatMinus(pos, 1))>>
    ELSE IF FloatLeq(pos, 3) THEN <<Round(OneMinus(FloatMinus(pos, 2))), Scale>>
    ELSE <<0, Round(OneMinus(FloatMinus(pos, 3)))>>

\* the loop: nails after the iterations i .. n-1, from current_pos
RECURSIVE SquareLoop(_, _, _, _, _)
SquareLoop(nails, current_pos, spacing, i, n) ==
    IF i >= n THEN nails
    ELSE SquareLoop(Append(nails, SquareNail(FloatMod(current_pos, Perimeter))),
                    FloatAdd(current_pos, spacing), spacing, i + 1, n)

\* the result of a call: a value returned, an exception raised, or the process exited
Returned(v) == [status |-> "return", exc |-> "", value |-> v]
Raised(e, m) == [status |-> "raise", exc |-> e, value |-> m]

generate_square_nails(n) ==
    IF n < 4 THEN Raised("ValueError", "Square shape requires at least 4 nails")
    ELSE Returned(SquareLoop(<<>>, FromInt(0), FloatDiv(Perimeter, n), 0, n))

----------------------------------------------------------------------------
(* generate_square_nails step by step *)

SquareCounts == (0 .. MaxCount) \cup {BigCount}
SegmentCounts == (0 .. MaxSegmentCount) \cup {TieCount}

NoNail == <<-1, -1>>

SquareStart(counts) ==
    /\ sq_pc = "call"
    /\ sq_num \in counts
    /\ sq_i = 0
    /\ sq_spacing = FromInt(0)
    /\ sq_current_pos = FromInt(0)
    /\ sq_len = 0
    /\ sq_prev = NoNail
    /\ sq_last = NoNail

\* lines 36-45: the check of num_nails, then spacing = perimeter / num_nails and
\* current_pos = 0.0
SquareEnter ==
    /\ sq_pc = "call"
    /\ sq_pc' = IF sq_num < 4 THEN "raised" ELSE "loop"
    /\ sq_spacing' = IF sq_num < 4 THEN sq_spacing ELSE FloatDiv(Perimeter, sq_num)
    /\ UNCHANGED <<sq_num, sq_i, sq_current_pos, sq_len, sq_prev, sq_last>>
    /\ UNCHANGED <<io_vars, gen_vars, ren_vars>>

\* lines 47-68: one iteration appends a nail and advances current_pos.  Behaviours
\* are followed for MaxIterations iterations of a call.
SquareIterate ==
    /\ sq_pc = "loop"
    /\ sq_i < sq_num
    /\ sq_i < MaxIterations
    /\ sq_prev' = sq_last
    /\ sq_last' = SquareNail(FloatMod(sq_current_pos, Perimeter))
    /\ sq_len' = sq_len + 1
    /\ sq_current_pos' = FloatAdd(sq_current_pos, sq_spacing)
    /\ sq_i' = sq_i + 1
    /\ UNCHANGED <<sq_pc, sq_num, sq_spacing>>
    /\ UNCHANGED <<io_vars, gen_vars, ren_vars>>

\* line 70
SquareReturn ==
    /\ sq_pc = "loop"
    /\ sq_i >= sq_num
    /\ sq_pc' = "done"
    /\ UNCHANGED <<sq_num, sq_i, sq_spacing, sq_current_pos, sq_len, sq_prev, sq_last>>
    /\ UNCHANGED <<io_vars, gen_vars, ren_vars>>

----------------------------------------------------------------------------
(* Python values read from a YAML document, and printed messages *)

\* A str is the sequence of its characters.
NailsKey == <<"n", "a", "i", "l", "s">>
ThreadKey == <<"t", "h", "r", "e", "a", "d">>

\* The values of the model: None, int, bool, float (n: its value in units of
\* 10^-6), str (s: its characters), list (l: its items) and dict (l: its keys in
\* the order of the file; every value of a dict of the model is None).
PyNone == [t |-> "none", n |-> 0, s |-> <<>>, l |-> <<>>]
PyInt(v) == [t |-> "int", n |-> v, s |-> <<>>, l |-> <<>>]
PyBool(b) == [t |-> "bool", n |-> IF b THEN 1 ELSE 0, s |-> <<>>, l |-> <<>>]
\* a float of u units (u / Scale)
PyFloat(u) == [t |-> "float", n |-> u, s |-> <<>>, l |-> <<>>]
PyStr(str) == [t |-> "str", n |-> 0, s |-> str, l |-> <<>>]
PyList(seq) == [t |-> "list", n |-> 0, s |-> <<>>, l |-> seq]
PyDict(keys) == [t |-> "dict", n |-> 0, s |-> <<>>, l |-> keys]

\* iter(v) does not raise TypeError
Iterable(v) == v.t \in {"list", "str", "dict"}

\* what for ... in v goes through: the items of a list, the keys of a dict, the
\* characters of a str
Items(v) == IF v.t = "str" THEN [k \in 1 .. Len(v.s) |-> PyStr(<<v.s[k]>>)] ELSE v.l

\* a printed line: its text, and the index and the value an f-string puts in it
Msg(text) == [text |-> text, i |-> -1, v |-> PyNone]
MsgAt(text, i, v) == [text |-> text, i |-> i, v |-> v]

\* how a call ends: "return", "raise" (exception exc reaches the caller),
\* "exit" (sys.exit(code)) or "show" (it waits in plt.show() for the window to be
\* closed); out and err are the lines printed on stdout and stderr
End(status, e, code, out, err) ==
    [status |-> status, exc |-> e, code |-> code, out |-> out, err |-> err]

\* the interpreter around main(): a normal return exits 0, an uncaught exception
\* prints a traceback on stderr and exits 1, argparse's error exits 2 by itself
Process(e) ==
    IF e.status = "return" THEN End("exit", "", 0, e.out, e.err)
    ELSE IF e.status = "raise"
        THEN End("exit", e.exc, 1, e.out, Append(e.err, Msg("Traceback (most recent call last)")))
    ELSE e

----------------------------------------------------------------------------
(* thread_art_generator.py *)

\* The nail at angle 2*pi*i/n of the circle of centre (0.5, 0.5) and radius 0.5:
\* (round(0.5 + 0.5*cos(angle), 6), round(0.5 + 0.5*sin(angle), 6)).  The model
\* keeps the angle as the fraction i/n of a turn; cos and sin are not evaluated.
CircleNail(i, n) == [turn_num |-> i, turn_den |-> n]

\* range(num_nails) is empty for num_nails <= 0
generate_circle_nails(n) ==
    Returned([k \in 1 .. (IF n > 0 THEN n ELSE 0) |-> CircleNail(k - 1, n)])

CircleShape == <<"c", "i", "r", "c", "l", "e">>
SquareShape == <<"s", "q", "u", "a", "r", "e">>

LowerLetters == <<"a", "b", "c", "d", "e", "f", "g", "h", "i", "j", "k", "l", "m",
                  "n", "o", "p", "q", "r", "s", "t", "u", "v", "w", "x", "y", "z">>
UpperLetters == <<"A", "B", "C", "D", "E", "F", "G", "H", "I", "J", "K", "L", "M",
                  "N", "O", "P", "Q", "R", "S", "T", "U", "V", "W", "X", "Y", "Z">>

\* str.lower() of an ASCII str: every upper-case letter becomes its lower-case one
LowerChar(c) ==
    IF \E k \in DOMAIN UpperLetters : UpperLetters[k] = c
        THEN LowerLetters[CHOOSE k \in DOMAIN UpperLetters : UpperLetters[k] = c]
    ELSE c
Lower(s) == [k \in 1 .. Len(s) |-> LowerChar(s[k])]

NoFile == [written |-> FALSE, nails |-> <<>>, thread |-> <<>>]
\* the text written: one "- [x, y]" line per nail, then "thread: []"
YamlFile(nails) == [written |-> TRUE, nails |-> nails, thread |-> <<>>]

\* create_thread_art_file; writable: whether open(output_path, 'w') succeeds
create_thread_art_file(n, s, writable) ==
    LET gen == IF Lower(s) = CircleShape THEN generate_circle_nails(n)
               ELSE IF Lower(s) = SquareShape THEN generate_square_nails(n)
               ELSE Raised("ValueError", "Unsupported shape")
    IN  IF gen.status = "raise"
            THEN [end |-> End("raise", gen.exc, -1, <<>>, <<>>), error |-> gen.value,
                  nails |-> <<>>, file |-> NoFile]
        ELSE IF writable
            THEN [end |-> End("return", "", -1,
                              <<Msg("Thread art file created"), Msg("  - Shape"),
                                Msg("  - Nails"), Msg("  - Thread: empty")>>, <<>>),
                  error |-> "", nails |-> gen.value, file |-> YamlFile(gen.value)]
        ELSE [end |-> End("exit", "IOError", 1, <<Msg("Error writing file")>>, <<>>),
              error |-> "", nails |-> gen.value, file |-> NoFile]

\* choices=['circle', 'square']
ShapeChoices == {CircleShape, SquareShape}

\* main of the generator
generator_main(n, s, writable) ==
    IF s \notin ShapeChoices
        THEN [end |-> End("exit", "", 2, <<>>, <<Msg("error: argument shape: invalid choice")>>),
              error |-> "", nails |-> <<>>, file |-> NoFile]
    ELSE IF n <= 0
        THEN [end |-> End("exit", "", 1, <<Msg("Error: Number of nails must be positive")>>, <<>>),
              error |-> "", nails |-> <<>>, file |-> NoFile]
    ELSE IF Lower(s) = SquareShape /\ n < 4
        THEN [end |-> End("exit", "", 1,
                          <<Msg("Error: Square shape requires at least 4 nails")>>, <<>>),
              error |-> "", nails |-> <<>>, file |-> NoFile]
    ELSE LET c == create_thread_art_file(n, s, writable)
         IN  IF c.end.status = "raise" /\ c.end.exc = "ValueError"
                 THEN [c EXCEPT !.end = End("exit", "", 1, <<Msg("Error: {e}")>>, <<>>)]
             ELSE [c EXCEPT !.end = Process(c.end)]


----------------------------------------------------------------------------
(* thread_art_visualizer.py: load_thread_art *)

\* What open() and yaml.safe_load() give for the input file.  kind is "missing"
\* (no such file), "invalid" (no YAML), or the type of the parsed value: "none"
\* (an empty document), "int", "str" (its characters: text), "list" (its items:
\* items) or "map".  A map holds the key 'nails' if has_nails, with the value
\* nails, and likewise 'thread'.
Document(kind, text, items, has_nails, nails, has_thread, thread) ==
    [kind |-> kind, text |-> text, items |-> items, has_nails |-> has_nails,
     nails |-> nails, has_thread |-> has_thread, thread |-> thread]

Range(f) == {f[k] : k \in DOMAIN f}

\* key in data raises TypeError: None and an int are no containers
KeyInRaises(d) == d.kind \in {"none", "int"}

\* key in text for two strs: key is a substring of text
Substring(key, text) ==
    \E k \in 1 .. Len(text) - Len(key) + 1 : SubSeq(text, k, k + Len(key) - 1) = key

\* key in data, for a container: the substring test in a str, an equal item in a
\* list, the key in a mapping
KeyIn(key, d) ==
    CASE d.kind = "str" -> Substring(key, d.text)
      [] d.kind = "list" -> PyStr(key) \in Range(d.items)
      [] OTHER -> IF key = NailsKey THEN d.has_nails ELSE d.has_thread

IsNumber(v) == v.t \in {"int", "float", "bool"}
\* the value of a number, in units
Num(v) == IF v.t = "float" THEN v.n ELSE v.n * Scale

\* 0 <= x <= 1 and 0 <= y <= 1, left to right: a comparison of 0 with a value
\* that is no number raises TypeError, and a failed comparison ends the chain
UnitSquareTest(x, y) ==
    IF ~IsNumber(x) THEN "TypeError"
    ELSE IF ~(0 <= Num(x) /\ Num(x) <= Scale) THEN "False"
    ELSE IF ~IsNumber(y) THEN "TypeError"
    ELSE IF ~(0 <= Num(y) /\ Num(y) <= Scale) THEN "False"
    ELSE "True"

Check(res, i, text, v) == [res |-> res, i |-> i, text |-> text, v |-> v]
CheckOk == Check("ok", -1, "", PyNone)

\* lines 33-37 for one nail: "shape", "range", "TypeError" or "ok"
NailTest(nail) ==
    IF nail.t # "list" \/ Len(nail.l) # 2 THEN "shape"
    ELSE LET u == UnitSquareTest(nail.l[1], nail.l[2])
         IN  IF u = "TypeError" THEN "TypeError"
             ELSE IF u = "False" THEN "range"
             ELSE "ok"

\* for i, nail in enumerate(nails), from index i on (0-based)
RECURSIVE ValidateNails(_, _)
ValidateNails(nails, i) ==
    IF i >= Len(nails) THEN CheckOk
    ELSE LET t == NailTest(nails[i + 1])
         IN  IF t = "shape"
                 THEN Check("ValueError", i, "Error in file format: Nail {i} must be a list of 2 coordinates", PyNone)
             ELSE IF t = "TypeError"
                 THEN Check("TypeError", i, "'<=' not supported", PyNone)
             ELSE IF t = "range"
                 THEN Check("ValueError", i, "Error in file format: Nail {i} coordinates must be in unit square [0,1]", PyNone)
             ELSE ValidateNails(nails, i + 1)

\* isinstance(nail_idx, int): bool is a subclass of int
IsInstanceInt(v) == v.t \in {"int", "bool"}

\* for i, nail_idx in enumerate(thread), from index i on (0-based)
RECURSIVE ValidateThread(_, _, _)
ValidateThread(thread, i, max_nail_index) ==
    IF i >= Len(thread) THEN CheckOk
    ELSE LET nail_idx == thread[i + 1]
         IN  IF ~IsInstanceInt(nail_idx) \/ ~(0 <= nail_idx.n /\ nail_idx.n <= max_nail_index)
                 THEN Check("ValueError", i, "Error in file format: Thread point {i}: nail index {nail_idx} is invalid (must be 0-{max_nail_index})", nail_idx)
             ELSE ValidateThread(thread, i + 1, max_nail_index)

\* what load_thread_art returned: what iterating nails and thread goes through,
\* and the type of thread
NotLoaded == [ok |-> FALSE, nails |-> <<>>, thread |-> <<>>, thread_type |-> "none"]

LoadEnd(e) == [end |-> e, value |-> NotLoaded]
\* except ValueError: print, sys.exit(1)
FormatError(m) == LoadEnd(End("exit", "ValueError", 1, <<m>>, <<>>))
\* an exception no except clause names leaves load_thread_art
Uncaught(e) == LoadEnd(End("raise", e, -1, <<>>, <<>>))

\* load_thread_art.  data['nails'] raises TypeError for a str and a list;
\* enumerate(nails) and enumerate(thread) raise TypeError for a value that cannot
\* be iterated.
load_thread_art(d) ==
    IF d.kind = "missing"
        THEN LoadEnd(End("exit", "FileNotFoundError", 1, <<Msg("Error: File not found")>>, <<>>))
    ELSE IF d.kind = "invalid"
        THEN LoadEnd(End("exit", "YAMLError", 1, <<Msg("Error parsing YAML")>>, <<>>))
    ELSE IF KeyInRaises(d) THEN Uncaught("TypeError")
    ELSE IF ~KeyIn(NailsKey, d) \/ ~KeyIn(ThreadKey, d)
        THEN FormatError(Msg("Error in file format: YAML file must contain 'nails' and 'thread' keys"))
    ELSE IF d.kind # "map" THEN Uncaught("TypeError")
    ELSE IF ~Iterable(d.nails) THEN Uncaught("TypeError")
    ELSE LET n == ValidateNails(Items(d.nails), 0)
         IN  IF n.res = "TypeError" THEN Uncaught("TypeError")
             ELSE IF n.res = "ValueError"
                 THEN FormatError(MsgAt(n.text, n.i, n.v))
             ELSE IF ~Iterable(d.thread) THEN Uncaught("TypeError")
             ELSE LET t == ValidateThread(Items(d.thread), 0, Len(Items(d.nails)) - 1)
                  IN  IF t.res = "ValueError"
                          THEN FormatError(MsgAt(t.text, t.i, t.v))
                      ELSE [end |-> End("return", "", -1, <<>>, <<>>),
                            value |-> [ok |-> TRUE, nails |-> Items(d.nails),
                                       thread |-> Items(d.thread),
                                       thread_type |-> d.thread.t]]

----------------------------------------------------------------------------
(* thread_art_visualizer.py: visualize_thread_art and main *)

\* figsize=(10, 10), in inches
FigSize == 10
\* dpi=image_size[0]//10
DpiDivisor == 10

\* x, y = nails[nail_idx]: the point of a nail, in units; True indexes as 1, and
\* a negative index counts from the end
Point(nail) == <<Num(nail.l[1]), Num(nail.l[2])>>
ListIndex(n, len) == IF n < 0 THEN len + n + 1 ELSE n + 1
NailAt(nails, nail_idx) == Point(nails[ListIndex(nail_idx.n, Len(nails))])

\* a == b for two values: numbers compare by value (True == 1)
PyEq(a, b) == IF IsNumber(a) /\ IsNumber(b) THEN Num(a) = Num(b) ELSE a = b

\* the exception nails[nail_idx] raises, "" if none: None and a number have no
\* items; a list and a str take an int within -len .. len-1; a dict takes a key it
\* holds, and a list is no key
SubscriptError(nails, nail_idx) ==
    CASE nails.t \in {"list", "str"} ->
             IF ~IsInstanceInt(nail_idx) THEN "TypeError"
             ELSE IF -Len(Items(nails)) <= nail_idx.n /\ nail_idx.n < Len(Items(nails)) THEN ""
             ELSE "IndexError"
      [] nails.t = "dict" ->
             IF nail_idx.t \in {"list", "dict"} THEN "TypeError"
             ELSE IF \E k \in DOMAIN nails.l : PyEq(nails.l[k], nail_idx) THEN ""
             ELSE "KeyError"
      [] OTHER -> "TypeError"

\* nails[nail_idx] where it raises nothing; every value of a dict is None
Subscript(nails, nail_idx) ==
    IF nails.t = "dict" THEN PyNone
    ELSE Items(nails)[ListIndex(nail_idx.n, Len(Items(nails)))]

\* the exception x, y = v raises, "" if none: v is iterated and must give two items
UnpackError(v) ==
    IF ~Iterable(v) THEN "TypeError"
    ELSE IF Len(Items(v)) # 2 THEN "ValueError"
    ELSE ""

\* the exception x, y = nails[nail_idx] raises (line 74), "" if none
LookupError(nails, nail_idx) ==
    IF SubscriptError(nails, nail_idx) # "" THEN SubscriptError(nails, nail_idx)
    ELSE UnpackError(Subscript(nails, nail_idx))

\* lines 73-76: the first exception of the loop over thread from its k-th item on
RECURSIVE PathError(_, _, _)
PathError(nails, thread, k) ==
    IF k > Len(thread) THEN ""
    ELSE IF LookupError(nails, thread[k]) # "" THEN LookupError(nails, thread[k])
    ELSE PathError(nails, thread, k + 1)

\* lines 82-88: the loop over nails from its k-th item on; drawn: the nails drawn
\* when it ends, exc: the exception that ends it, "" if none
RECURSIVE NailsLoop(_, _)
NailsLoop(nails, k) ==
    IF k > Len(nails) THEN [exc |-> "", drawn |-> Len(nails)]
    ELSE IF UnpackError(nails[k]) # "" THEN [exc |-> UnpackError(nails[k]), drawn |-> k - 1]
    ELSE NailsLoop(nails, k + 1)

NoCanvas == [drawn |-> FALSE, polyline |-> <<>>, discs |-> <<>>, markers |-> <<>>,
             stats |-> [nails |-> 0, segments |-> 0]]
NoImage == [saved |-> FALSE, dpi |-> 0, width |-> 0, height |-> 0]

\* the statistics line counting the thread points
SegmentCountAsPoints(thread) == Len(thread)

\* len(thread)-1 if thread else 0
SegmentCount(thread) == IF Len(thread) > 0 THEN Len(thread) - 1 ELSE 0

\* What is drawn: the line through thread_x, thread_y (ax.plot), a disc and a
\* label per nail, the start and end markers, the statistics text.
Draw(nails, thread) ==
    [drawn |-> TRUE,
     polyline |-> [k \in 1 .. Len(thread) |-> NailAt(nails, thread[k])],
     discs |-> [k \in 1 .. Len(nails) |-> [center |-> Point(nails[k]), label |-> k - 1]],
     markers |-> IF Len(thread) > 0
                     THEN <<[kind |-> "start", at |-> NailAt(nails, thread[1])],
                            [kind |-> "end", at |-> NailAt(nails, thread[Len(thread)])]>>
                 ELSE <<>>,
     stats |-> [nails |-> Len(nails), segments |-> SegmentCount(thread)]]

\* what is drawn when the loop over nails ends after drawn nails: the line and
\* those nails
PathAndSome(nails, thread, drawn) ==
    [drawn |-> TRUE,
     polyline |-> [k \in 1 .. Len(thread) |-> NailAt(nails, thread[k])],
     discs |-> [k \in 1 .. drawn |-> [center |-> Point(nails[k]), label |-> k - 1]],
     markers |-> <<>>,
     stats |-> NoCanvas.stats]

\* what is drawn when line 92 is reached: the line and the nails
PathAndNails(nails, thread) == PathAndSome(nails, thread, Len(nails))

\* thread[0] and thread[-1] (lines 92-93) of a thread that is a dict look up the
\* keys 0 and -1; no key of a loaded thread is -1.  A key 0 (or False) gives its
\* value None, and nails[None] raises TypeError.
ThreadLookupError(thread) ==
    IF \E k \in DOMAIN thread : thread[k].n = 0 THEN "TypeError" ELSE "KeyError"

\* What bbox_inches='tight' cuts off the figure, after plt.tight_layout(): the
\* saved image is the bounding box of what is drawn plus the padding, whose extent
\* is the plotting library's layout and is computed by no line of this program.
\* crop = <<cw, ch>>: the tenths of an inch by which that box is narrower and
\* lower than the figure.  The program fixes neither, and the model lets each be
\* any of 0 .. MaxCrop.
Crops == (0 .. MaxCrop) \X (0 .. MaxCrop)

\* plt.tight_layout(); plt.savefig(output_path, dpi=image_size[0]//10,
\* bbox_inches='tight'): the box cut out of the figure of FigSize x FigSize
\* inches, in pixels at that dpi.  image_size[1] is not read.
SaveFig(size, crop) ==
    LET dpi == size[1] \div DpiDivisor
    IN  [saved |-> TRUE, dpi |-> dpi,
         width |-> ((FigSize * 10 - crop[1]) * dpi) \div 10,
         height |-> ((FigSize * 10 - crop[2]) * dpi) \div 10]

\* what plt.show() does on the backend in use: it opens the window and waits
\* until it is closed, or, without windows, it returns with a warning on stderr
\* or without one
Backends == {"window", "warning", "silent"}

\* the warning (its wording is the plotting library's)
ShowWarning == Msg("UserWarning")

\* how visualize_thread_art ends, what it has drawn and written
Visualized(e, c, img) == [end |-> e, canvas |-> c, image |-> img]

\* lines 91-114, after the two loops
MarkAndSave(nails, thread, thread_type, size, writable, crop, backend) ==
    IF thread_type = "dict" /\ Len(thread) > 0
        THEN Visualized(End("raise", ThreadLookupError(thread), -1, <<>>, <<>>),
                        PathAndNails(nails, thread), NoImage)
    ELSE IF ~writable
        THEN Visualized(End("raise", "OSError", -1, <<>>, <<>>), Draw(nails, thread), NoImage)
    ELSE IF backend = "window"
        THEN Visualized(End("show", "", -1, <<Msg("Thread art visualization saved to")>>, <<>>),
                        Draw(nails, thread), SaveFig(size, crop))
    ELSE Visualized(End("return", "", -1, <<Msg("Thread art visualization saved to")>>,
                        IF backend = "warning" THEN <<ShowWarning>> ELSE <<>>),
                    Draw(nails, thread), SaveFig(size, crop))

\* lines 82-114, the loop over nails having ended as loop
NailsThenSave(nails, thread, loop, size, writable, crop, backend) ==
    IF loop.exc # ""
        THEN Visualized(End("raise", loop.exc, -1, <<>>, <<>>),
                        PathAndSome(Items(nails), Items(thread), loop.drawn), NoImage)
    ELSE MarkAndSave(Items(nails), Items(thread), thread.t, size, writable, crop, backend)

\* visualize_thread_art(nails, thread, output_path, image_size); writable: whether
\* savefig can write output_path (its OSError is caught nowhere).  The loop over
\* thread (lines 73-76) draws nothing; ax.plot draws the line; the loop over nails
\* (lines 82-88) draws nail by nail.
visualize_thread_art(nails, thread, size, writable, crop, backend) ==
    IF ~Iterable(thread)
        THEN Visualized(End("raise", "TypeError", -1, <<>>, <<>>), NoCanvas, NoImage)
    ELSE IF PathError(nails, Items(thread), 1) # ""
        THEN Visualized(End("raise", PathError(nails, Items(thread), 1), -1, <<>>, <<>>),
                        NoCanvas, NoImage)
    ELSE IF ~Iterable(nails)
        THEN Visualized(End("raise", "TypeError", -1, <<>>, <<>>),
                        PathAndSome(<<>>, Items(thread), 0), NoImage)
    ELSE NailsThenSave(nails, thread, NailsLoop(Items(nails), 1), size, writable, crop, backend)

\* main of the renderer, up to its end or to the wait in plt.show()
renderer_main(d, size, writable, crop, backend) ==
    LET l == load_thread_art(d)
    IN  IF l.end.status # "return"
            THEN [end |-> Process(l.end), value |-> l.value, called |-> FALSE,
                  canvas |-> NoCanvas, image |-> NoImage]
        ELSE LET v == visualize_thread_art(d.nails, d.thread, size, writable, crop, backend)
             IN  [end |-> Process(End(v.end.status, v.end.exc, v.end.code,
                                      <<Msg("Loaded thread art with")>> \o v.end.out, v.end.err)),
                  value |-> l.value, called |-> TRUE, canvas |-> v.canvas, image |-> v.image]

----------------------------------------------------------------------------
(* The inputs of the model *)

Counts == -1 .. MaxCount
Shapes ==
    {CircleShape, SquareShape,
     <<"S", "Q", "U", "A", "R", "E">>, <<"C", "i", "r", "c", "l", "e">>,
     <<"t", "r", "i", "a", "n", "g", "l", "e">>}

Half == Scale \div 2

\* entries of nails: two in the unit square, one above 1, one below 0, one with a
\* string coordinate, one of length 1, one that is no list
NailEntries ==
    {PyList(<<PyInt(0), PyInt(0)>>),
     PyList(<<PyInt(1), PyFloat(Half)>>),
     PyList(<<PyFloat(Half), PyFloat(Scale + Half)>>),
     PyList(<<PyFloat(-Half), PyInt(0)>>),
     PyList(<<PyStr(<<"a">>), PyFloat(Half)>>),
     PyList(<<PyFloat(Half)>>),
     PyInt(7)}

\* entries of thread: indices 0, 2 and 5, True, and the string "1"
ThreadEntries == {PyInt(0), PyInt(2), PyInt(5), PyBool(TRUE), PyStr(<<"1">>)}

SeqsUpTo(S, n) == UNION {[1 .. k -> S] : k \in 0 .. n}

\* values that are no list: None, an int, an empty and a non-empty str, an empty
\* and a non-empty mapping
NoLists ==
    {PyNone, PyInt(3), PyStr(<<>>), PyStr(<<"a", "b">>), PyDict(<<>>), PyDict(<<PyStr(<<"a">>)>>)}

NailsValues == {PyList(q) : q \in SeqsUpTo(NailEntries, MaxNails)} \cup NoLists
ThreadValues == {PyList(q) : q \in SeqsUpTo(ThreadEntries, MaxThread)} \cup NoLists

NoDocument == Document("", <<>>, <<>>, FALSE, PyNone, FALSE, PyNone)
Scalar(kind) == Document(kind, <<>>, <<>>, FALSE, PyNone, FALSE, PyNone)
StrDocument(text) == Document("str", text, <<>>, FALSE, PyNone, FALSE, PyNone)
ListDocument(items) == Document("list", <<>>, items, FALSE, PyNone, FALSE, PyNone)

\* documents that are no mapping, or a mapping without one of the keys
OtherDocuments ==
    {Scalar("missing"), Scalar("invalid"), Scalar("none"), Scalar("int"),
     StrDocument(<<"h", "e", "l", "l", "o">>), StrDocument(NailsKey),
     StrDocument(NailsKey \o <<" ">> \o ThreadKey),
     StrDocument(<<"x">> \o ThreadKey \o NailsKey),
     ListDocument(<<>>), ListDocument(<<PyStr(NailsKey), PyStr(ThreadKey)>>),
     ListDocument(<<PyStr(NailsKey), PyInt(1)>>),
     Document("map", <<>>, <<>>, FALSE, PyNone, FALSE, PyNone),
     Document("map", <<>>, <<>>, TRUE, PyList(<<>>), FALSE, PyNone),
     Document("map", <<>>, <<>>, FALSE, PyNone, TRUE, PyList(<<>>))}

\* the mapping {nails: n, thread: t}
Mapping(n, t) == Document("map", <<>>, <<>>, TRUE, n, TRUE, t)

\* --size width height
Sizes == {<<800, 800>>, <<800, 600>>, <<805, 805>>}

----------------------------------------------------------------------------
(* One invocation *)

ToolIdle ==
    /\ pc = "start" /\ call = "" /\ exc = "" /\ exit_status = -1
    /\ stdout = <<>> /\ stderr = <<>>
    /\ num_nails = 0 /\ shape = <<>> /\ gen_nails = <<>> /\ out_file = NoFile
    /\ doc = NoDocument /\ loaded = NotLoaded
    /\ arg_nails = PyNone /\ arg_thread = PyNone /\ image_size = <<0, 0>>
    /\ canvas = NoCanvas /\ image = NoImage

SquareIdle ==
    /\ sq_pc = "idle" /\ sq_num = 0 /\ sq_i = 0
    /\ sq_spacing = FromInt(0) /\ sq_current_pos = FromInt(0)
    /\ sq_len = 0 /\ sq_prev = NoNail /\ sq_last = NoNail

\* where the caller stands after a call that ended as e
After(e) ==
    CASE e.status = "return" -> "returned"
      [] e.status = "raise" -> "raised"
      [] e.status = "show" -> "showing"
      [] OTHER -> "exited"

Ended(name, e) ==
    /\ pc' = After(e)
    /\ call' = name
    /\ exc' = e.exc
    /\ exit_status' = e.code
    /\ stdout' = e.out
    /\ stderr' = e.err

\* python thread_art_generator.py num_nails shape
GeneratorMain ==
    /\ pc = "start"
    /\ \E n \in Counts, s \in Shapes, writable \in BOOLEAN :
        LET r == generator_main(n, s, writable)
        IN  /\ Ended("generator.main", r.end)
            /\ num_nails' = n /\ shape' = s
            /\ gen_nails' = <<>>
            /\ out_file' = r.file
    /\ UNCHANGED <<sq_vars, ren_vars>>

\* a call of create_thread_art_file(num_nails, shape, output_path)
CallCreateThreadArtFile ==
    /\ pc = "start"
    /\ \E n \in Counts, s \in Shapes, writable \in BOOLEAN :
        LET r == create_thread_art_file(n, s, writable)
        IN  /\ Ended("create_thread_art_file", r.end)
            /\ num_nails' = n /\ shape' = s
            /\ gen_nails' = <<>>
            /\ out_file' = r.file
    /\ UNCHANGED <<sq_vars, ren_vars>>

\* a call of generate_circle_nails(num_nails)
CallGenerateCircleNails ==
    /\ pc = "start"
    /\ \E n \in Counts :
        LET r == generate_circle_nails(n)
        IN  /\ Ended("generate_circle_nails", End(r.status, r.exc, -1, <<>>, <<>>))
            /\ num_nails' = n /\ shape' = CircleShape
            /\ gen_nails' = IF r.status = "return" THEN r.value ELSE <<>>
            /\ out_file' = NoFile
    /\ UNCHANGED <<sq_vars, ren_vars>>

\* a call of generate_square_nails(num_nails)
CallGenerateSquareNails ==
    /\ pc = "start"
    /\ \E n \in Counts :
        LET r == generate_square_nails(n)
        IN  /\ Ended("generate_square_nails", End(r.status, r.exc, -1, <<>>, <<>>))
            /\ num_nails' = n /\ shape' = SquareShape
            /\ gen_nails' = IF r.status = "return" THEN r.value ELSE <<>>
            /\ out_file' = NoFile
    /\ UNCHANGED <<sq_vars, ren_vars>>

\* The sizes and the writability of the output that decide a run on document d: a
\* run whose load fails reads neither.
SizesRead(d) == IF load_thread_art(d).value.ok THEN Sizes ELSE {<<800, 800>>}
WritableRead(d) == IF load_thread_art(d).value.ok THEN BOOLEAN ELSE {TRUE}
\* the layout's crop and the kind of backend matter once savefig has written
CropsRead(d, writable) == IF load_thread_art(d).value.ok /\ writable THEN Crops ELSE {<<0, 0>>}
BackendsRead(d, writable) == IF load_thread_art(d).value.ok /\ writable THEN Backends ELSE {"silent"}

RenderDocument(d) ==
    \E size \in SizesRead(d), writable \in WritableRead(d) :
        \E crop \in CropsRead(d, writable), backend \in BackendsRead(d, writable) :
            LET r == renderer_main(d, size, writable, crop, backend)
            IN  /\ Ended("visualizer.main", r.end)
                /\ doc' = d
                /\ loaded' = r.value
                /\ arg_nails' = IF r.called THEN d.nails ELSE PyNone
                /\ arg_thread' = IF r.called THEN d.thread ELSE PyNone
                /\ image_size' = IF r.called THEN size ELSE <<0, 0>>
                /\ canvas' = r.canvas
                /\ image' = r.image

\* python thread_art_visualizer.py input -s width height, until the process has
\* ended or waits in plt.show() with the image written and the message printed
RendererMain ==
    /\ pc = "start"
    /\ \/ \E d \in OtherDocuments : RenderDocument(d)
       \/ \E n \in NailsValues, t \in ThreadValues : RenderDocument(Mapping(n, t))
    /\ UNCHANGED <<sq_vars, gen_vars>>

\* The nails a call of visualize_thread_art is followed on: every coordinate of a
\* nail is a number.  What the plotting library does with a coordinate that is a
\* str is computed by no line of this program.
Plottable(nails) ==
    nails.t = "list" =>
        \A k \in DOMAIN nails.l :
            nails.l[k].t = "list" => \A j \in DOMAIN nails.l[k].l : IsNumber(nails.l[k].l[j])

\* the sizes, the writability, the crop and the backend that decide a call on
\* (nails, thread): a call that raises before savefig reads none of them
Saves(nails, thread) ==
    visualize_thread_art(nails, thread, <<800, 800>>, TRUE, <<0, 0>>, "silent").image.saved
SizesDrawn(nails, thread) == IF Saves(nails, thread) THEN Sizes ELSE {<<800, 800>>}
WritableDrawn(nails, thread) == IF Saves(nails, thread) THEN BOOLEAN ELSE {TRUE}
CropsDrawn(nails, thread, writable) ==
    IF Saves(nails, thread) /\ writable THEN Crops ELSE {<<0, 0>>}
BackendsDrawn(nails, thread, writable) ==
    IF Saves(nails, thread) /\ writable THEN Backends ELSE {"silent"}

Visualize(nails, thread) ==
    \E size \in SizesDrawn(nails, thread), writable \in WritableDrawn(nails, thread) :
        \E crop \in CropsDrawn(nails, thread, writable),
           backend \in BackendsDrawn(nails, thread, writable) :
            LET r == visualize_thread_art(nails, thread, size, writable, crop, backend)
            IN  /\ Ended("visualize_thread_art", r.end)
                /\ arg_nails' = nails
                /\ arg_thread' = thread
                /\ image_size' = size
                /\ canvas' = r.canvas
                /\ image' = r.image

\* a call of visualize_thread_art(nails, thread, output_path, image_size), with
\* nothing loaded before, until it has ended or waits in plt.show()
CallVisualizeThreadArt ==
    /\ pc = "start"
    /\ \E n \in {v \in NailsValues : Plottable(v)}, t \in ThreadValues : Visualize(n, t)
    /\ UNCHANGED <<sq_vars, gen_vars, doc, loaded>>

\* the window is closed: plt.show() returns and visualize_thread_art returns;
\* main then returns, and the process exits 0
WindowClosed ==
    /\ pc = "showing" /\ call \in {"visualizer.main", "visualize_thread_art"}
    /\ pc' = IF call = "visualizer.main" THEN "exited" ELSE "returned"
    /\ exit_status' = IF call = "visualizer.main" THEN 0 ELSE exit_status
    /\ UNCHANGED <<call, exc, stdout, stderr>>
    /\ UNCHANGED <<sq_vars, gen_vars, ren_vars>>

LoadDocument(d) ==
    LET r == load_thread_art(d)
    IN  /\ Ended("load_thread_art", r.end)
        /\ doc' = d
        /\ loaded' = r.value

\* a call of load_thread_art(file_path)
CallLoadThreadArt ==
    /\ pc = "start"
    /\ \/ \E d \in OtherDocuments : LoadDocument(d)
       \/ \E n \in NailsValues, t \in ThreadValues : LoadDocument(Mapping(n, t))
    /\ UNCHANGED <<sq_vars, gen_vars, arg_nails, arg_thread, image_size, canvas, image>>

InitGenerator == ToolIdle /\ SquareIdle
NextGenerator ==
    \/ GeneratorMain
    \/ CallCreateThreadArtFile
    \/ CallGenerateCircleNails
    \/ CallGenerateSquareNails
SpecGenerator == InitGenerator /\ [][NextGenerator]_vars

InitRenderer == ToolIdle /\ SquareIdle
NextRenderer ==
    \/ RendererMain
    \/ CallVisualizeThreadArt
    \/ WindowClosed
    \/ CallLoadThreadArt
SpecRenderer == InitRenderer /\ [][NextRenderer]_vars

\* a call of generate_square_nails, step by step
InitSquare == ToolIdle /\ SquareStart(SquareCounts)
NextSquare ==
    \/ SquareEnter
    \/ SquareIterate
    \/ SquareReturn
SpecSquare == InitSquare /\ [][NextSquare]_vars

\* the same for every count up to MaxSegmentCount, and for TieCount
InitSegments == ToolIdle /\ SquareStart(SegmentCounts)
NextSegments ==
    \/ SquareEnter
    \/ SquareIterate
    \/ SquareReturn
SpecSegments == InitSegments /\ [][NextSegments]_vars

\* both tools
InitTools == ToolIdle /\ SquareIdle
NextTools == NextGenerator \/ NextRenderer
SpecTools == InitTools /\ [][NextTools]_vars

----------------------------------------------------------------------------
(* The square layout *)

\* the point lies on the boundary of the unit square
OnBoundary(p) ==
    \/ p[1] \in {0, Scale} /\ 0 <= p[2] /\ p[2] <= Scale
    \/ p[2] \in {0, Scale} /\ 0 <= p[1] /\ p[1] <= Scale

\* the perimeter position of a boundary point, in units, measured from (0,0) along
\* the bottom, right, top and left edge
PerimeterPosition(p) ==
    IF p[2] = 0 THEN p[1]
    ELSE IF p[1] = Scale THEN Scale + p[2]
    ELSE IF p[2] = Scale THEN 2 * Scale + (Scale - p[1])
    ELSE 3 * Scale + (Scale - p[2])

\* Of the nails appended so far: the last one is on the boundary, it lies
\* strictly further along the perimeter than the one before it and below 4, and
\* at the return there are num_nails of them.
SquareAdvances ==
    /\ sq_pc = "done" => sq_len = sq_num
    /\ sq_len >= 1 => OnBoundary(sq_last) /\ PerimeterPosition(sq_last) < Perimeter * Scale
    /\ sq_len >= 2 => PerimeterPosition(sq_prev) < PerimeterPosition(sq_last)

\* C1 as stated: for every count >= 4 generate(count, square) returns count
\* points, each on the boundary of the unit square, whose perimeter positions
\* strictly increase with the index and stay below 4.
C1_EveryCountAdvances == sq_pc \in {"loop", "done"} => SquareAdvances

\* C1, amended: the same for every count from 4 to 4,000,000 (Perimeter * Scale),
\* the counts whose spacing 4/count is at least the rounding step 10^-6.
C1_CountsUpToRoundingLimit ==
    (sq_pc \in {"loop", "done"} /\ sq_num <= Perimeter * Scale) => SquareAdvances

\* a layout of 7 nails, a count that 4 does not divide, has been returned
C1_Witness ==
    /\ sq_pc = "done" /\ sq_num = 7 /\ sq_len = 7
    /\ sq_prev = <<142857, Scale>> /\ sq_last = <<0, 571429>>

----------------------------------------------------------------------------
(* The square layout against the segment formulas *)

\* num/den rounded to 6 decimals, in units: the nearest unit, a tie to the even one
RoundRatio(num, den) ==
    LET q == (num * Scale) \div den
        r == (num * Scale) % den
    IN  IF 2 * r < den THEN q
        ELSE IF 2 * r > den THEN q + 1
        ELSE IF q % 2 = 0 THEN q ELSE q + 1

\* The point of index i by the formulas of the design: p = (i*4/count) mod 4 on the
\* half-open segments [0,1) (p,0), [1,2) (1,p-1), [2,3) (3-p,1), [3,4) (0,4-p), each
\* coordinate rounded to 6 decimals.  a is p * count.
SegmentPoint(i, count) ==
    LET a == (i * Perimeter) % (Perimeter * count)
    IN  IF a < count THEN <<RoundRatio(a, count), 0>>
        ELSE IF a < 2 * count THEN <<Scale, RoundRatio(a - count, count)>>
        ELSE IF a < 3 * count THEN <<RoundRatio(3 * count - a, count), Scale>>
        ELSE <<0, RoundRatio(4 * count - a, count)>>

\* the largest power of 2 that divides m
RECURSIVE TwoPart(_)
TwoPart(m) == IF m % 2 = 1 THEN 1 ELSE 2 * TwoPart(m \div 2)

\* A coordinate i*4/count (less a whole number) lies halfway between two units
\* only if 2 * 4 * Scale * i is an odd multiple of count, so only if count is a
\* multiple of TiePeriod (512).
TiePeriod == TwoPart(2 * Perimeter * Scale)

Corners == <<<<0, 0>>, <<Scale, 0>>, <<Scale, Scale>>, <<0, Scale>>>>

\* Of the nails appended so far the last one, of index sq_len - 1, is the point
\* of the segment formulas; at the return there are num_nails of them; the nails
\* of the count 4 are the corners.
SquareMatches ==
    /\ sq_pc = "done" => sq_len = sq_num
    /\ sq_len >= 1 => sq_last = SegmentPoint(sq_len - 1, sq_num)
    /\ (sq_num = 4 /\ sq_len >= 1) => sq_last = Corners[sq_len]

\* C10 as stated: for every count >= 4 and index i the point generate(count,
\* square) puts at index i is the point of perimeter position (i*4/count) mod 4 by
\* the half-open segment formulas, also at the corners, and generate(4, square) is
\* exactly [(0,0), (1,0), (1,1), (0,1)].
C10_SquareMatchesSegments == sq_pc \in {"loop", "done"} => SquareMatches

\* C10, amended: the same for every count from 4 to 511, the counts below
\* TiePeriod, of which no position is a rounding tie.
C10_MatchesBelowFirstTie ==
    (sq_pc \in {"loop", "done"} /\ sq_num < TiePeriod) => SquareMatches

\* the layout of 12 nails has reached the corner p = 2 (index 6): the closed
\* comparison p <= 2 takes the right edge and gives (1,1), as [2,3) does
C10_Witness ==
    /\ sq_pc = "loop" /\ sq_num = 12 /\ sq_len = 7
    /\ sq_prev = <<Scale, 666667>> /\ sq_last = <<Scale, Scale>>

----------------------------------------------------------------------------
(* The parameters of the generator *)

InvalidParameter(n, s) == n <= 0 \/ (Lower(s) = SquareShape /\ n < 4)

\* C2: generation fails with an InvalidParameter error, returning no layout and
\* writing no file, whenever count <= 0 (any shape) or the shape is square and
\* count < 4, in generate_circle_nails, generate_square_nails and
\* create_thread_art_file as well as at the command line.
C2_InvalidParameterFails ==
    (pc # "start" /\ call \in {"generate_circle_nails", "generate_square_nails",
                               "create_thread_art_file", "generator.main"}
                  /\ InvalidParameter(num_nails, shape)) =>
        /\ \/ pc = "raised" /\ exc = "ValueError"
           \/ call = "generator.main" /\ pc = "exited" /\ exit_status # 0 /\ exc = ""
        /\ ~out_file.written

----------------------------------------------------------------------------
(* Loading *)

Min(S) == CHOOSE x \in S : \A y \in S : x <= y

\* the lines printed on either stream
Printed == Range(stdout) \cup Range(stderr)

LoadRan == pc # "start" /\ call \in {"load_thread_art", "visualizer.main"}

\* the document is a mapping with both keys
HasBothKeys == doc.kind = "map" /\ doc.has_nails /\ doc.has_thread

\* an entry of thread that is no index: not an integer (a boolean, a float and a
\* string are none), or outside [0, len(nails)-1]
NoIndex(v, len_nails) == ~(v.t = "int" /\ 0 <= v.n /\ v.n <= len_nails - 1)

\* an entry of nails that is no nail: not a 2-element sequence of numbers (a
\* boolean is let count as one), or with a coordinate outside [0,1]
NoNailEntry(v) ==
    \/ v.t # "list"
    \/ Len(v.l) # 2
    \/ \E c \in 1 .. 2 : ~IsNumber(v.l[c]) \/ Num(v.l[c]) < 0 \/ Num(v.l[c]) > Scale

NoNails(d) == {k \in 1 .. Len(d.nails.l) : NoNailEntry(d.nails.l[k])}
NoIndices(d) == {k \in 1 .. Len(d.thread.l) : NoIndex(d.thread.l[k], Len(d.nails.l))}

\* C4: load fails with InvalidThreadIndex(i, value) for every file whose thread
\* entry i is no integer or lies outside [0, len(nails)-1]; whenever load returns
\* (nails, thread), every entry of thread is an integer index (no boolean, float or
\* string) in that range.
C4_ThreadIndicesValid ==
    LoadRan =>
        /\ loaded.ok =>
               \A k \in 1 .. Len(loaded.thread) : ~NoIndex(loaded.thread[k], Len(loaded.nails))
        /\ (HasBothKeys /\ doc.nails.t = "list" /\ doc.thread.t = "list"
                /\ NoNails(doc) = {} /\ NoIndices(doc) # {}) =>
               /\ pc = "exited" /\ exit_status = 1
               /\ \E m \in Printed :
                      /\ m.text = "Error in file format: Thread point {i}: nail index {nail_idx} is invalid (must be 0-{max_nail_index})"
                      /\ m.i = Min(NoIndices(doc)) - 1
                      /\ m.v = doc.thread.l[Min(NoIndices(doc))]

\* C5: load fails with InvalidNail(i), naming the index of the offending entry,
\* for every file whose nails entry i is no 2-element sequence of numbers or has a
\* coordinate outside [0,1]: the diagnostic and exit status 1, never an unhandled
\* error of another kind.
C5_InvalidNailReported ==
    (LoadRan /\ HasBothKeys /\ doc.nails.t = "list" /\ NoNails(doc) # {}) =>
        /\ pc = "exited" /\ exit_status = 1 /\ exc = "ValueError"
        /\ \E m \in Printed :
               /\ m.text \in {"Error in file format: Nail {i} must be a list of 2 coordinates",
                              "Error in file format: Nail {i} coordinates must be in unit square [0,1]"}
               /\ m.i = Min(NoNails(doc)) - 1

\* C6: load fails with MalformedFormat (a diagnostic and exit status 1) for every
\* input whose parsed content is no mapping (an empty document, a scalar, a string,
\* a list) and for every mapping without the key nails or the key thread; it never
\* returns or ends in another error there.
C6_MalformedFormatReported ==
    (LoadRan /\ (doc.kind \in {"none", "int", "str", "list"} \/ (doc.kind = "map" /\ ~HasBothKeys))) =>
        /\ pc = "exited" /\ exit_status = 1 /\ exc = "ValueError"
        /\ \E m \in Printed :
               m.text = "Error in file format: YAML file must contain 'nails' and 'thread' keys"

----------------------------------------------------------------------------
(* Errors *)

MainRan == pc # "start" /\ call \in {"generator.main", "visualizer.main"}

\* the run met an error: a parameter the generator refuses, an input the renderer
\* cannot load, an exception
MetError ==
    \/ call = "generator.main" /\ (InvalidParameter(num_nails, shape) \/ shape \notin ShapeChoices)
    \/ call = "visualizer.main" /\ ~loaded.ok
    \/ exc # ""

\* C7: in both tools every error ends the invocation: a diagnostic is written to
\* the error stream and the process terminates with a non-zero exit status; the
\* renderer draws only after load has returned, so a run whose load fails draws
\* nothing and writes no image.
C7_ErrorsEndOnErrorStream ==
    MainRan =>
        /\ MetError => pc = "exited" /\ exit_status # 0 /\ stderr # <<>>
        /\ (call = "visualizer.main" /\ ~loaded.ok) => ~canvas.drawn /\ ~image.saved

----------------------------------------------------------------------------
(* Rendering *)

\* the segments of the line drawn through the points pl, each joined to the next
Segments(pl) == [k \in 1 .. (IF Len(pl) > 0 THEN Len(pl) - 1 ELSE 0) |-> <<pl[k], pl[k + 1]>>]

Max(a, b) == IF a >= b THEN a ELSE b

\* the arguments of the call of visualize_thread_art, as it iterates them
Nails == Items(arg_nails)
Thread == Items(arg_thread)

\* (nails, thread) is valid: a file that holds them loads
ValidArguments == load_thread_art(Mapping(arg_nails, arg_thread)).value.ok

\* nails[thread[k]] as a point (k counted from 1 here)
ThreadPoint(k) == Point(Nails[Thread[k].n + 1])

\* C8: for every valid (nails, thread) the renderer draws every nail, draws exactly
\* max(len(thread)-1, 0) segments, the k-th from nails[thread[k]] to
\* nails[thread[k+1]], reports that number in the statistics text, and draws a
\* start marker at nails[thread[0]] and an end marker at nails[thread[-1]] if and
\* only if thread is not empty; whether visualize_thread_art is called by main
\* on what was loaded, or on its own.
C8_DrawsNailsSegmentsMarkers ==
    (canvas.drawn /\ ValidArguments) =>
        LET segments == Segments(canvas.polyline)
            count == Max(Len(Thread) - 1, 0)
        IN  /\ call = "visualizer.main" => (Nails = loaded.nails /\ Thread = loaded.thread)
            /\ Len(canvas.discs) = Len(Nails)
            /\ \A k \in 1 .. Len(Nails) :
                   canvas.discs[k].center = Point(Nails[k]) /\ canvas.discs[k].label = k - 1
            /\ Len(segments) = count
            /\ \A k \in 1 .. count : segments[k] = <<ThreadPoint(k), ThreadPoint(k + 1)>>
            /\ canvas.stats.segments = count
            /\ canvas.stats.nails = Len(Nails)
            /\ (canvas.markers # <<>>) <=> (Thread # <<>>)
            /\ Thread # <<>> =>
                   canvas.markers = <<[kind |-> "start", at |-> ThreadPoint(1)],
                                      [kind |-> "end", at |-> ThreadPoint(Len(Thread))]>>

\* thread [2, 2] on three nails has been drawn: one segment of length zero, and the
\* start and the end marker both at nail 2
C8_Witness ==
    /\ canvas.drawn /\ call = "visualizer.main" /\ exit_status = 0
    /\ Len(loaded.nails) = 3
    /\ loaded.thread = <<PyInt(2), PyInt(2)>>
    /\ arg_thread = PyList(loaded.thread)
    /\ Segments(canvas.polyline) = <<<<Point(loaded.nails[3]), Point(loaded.nails[3])>>>>
    /\ canvas.stats.segments = 1
    /\ Len(canvas.markers) = 2

Abs(a) == IF a >= 0 THEN a ELSE -a

\* C9: for every requested size (width, height) the exported image has the
\* requested width and the requested height in pixels, within rounding (a pixel).
C9_ImageHasRequestedSize ==
    image.saved =>
        /\ Abs(image.width - image_size[1]) <= 1
        /\ Abs(image.height - image_size[2]) <= 1

====
